---- MODULE Spec2Model ----
(***************************************************************************)
(* State-machine model of API/main.py: the /predict forecasting handler,   *)
(* the timing middleware wrapped around every request, the /performance    *)
(* accessor, and the process-wide scaler and telemetry lists they share.   *)
(*                                                                         *)
(* Numbers.  Prices are integers.  A value in the scaler's feature range   *)
(* [0, 1] is kept in fixed point with Unit steps per 1.0, and a            *)
(* de-normalized price is kept in steps of 1/Unit of a price.  Every       *)
(* data range a history below can produce divides Unit, so transform and   *)
(* inverse_transform are exact.                                            *)
(*                                                                         *)
(* Scheduling.  predict_prices and get_performance_data are plain `def`    *)
(* endpoints: the framework runs them on worker threads, so the handler    *)
(* steps of different requests interleave.  The middleware is `async` and  *)
(* runs on the event loop.  One action is one step between two points at   *)
(* which another request can run.                                          *)
(***************************************************************************)
EXTENDS Integers, Sequences, FiniteSets, TLC

\* Window length of the LSTM input: the literal 60 of predict_prices.
W == 60

\* 1.0 of the scaler's feature_range=(0, 1), in fixed-point steps.
Unit == 8

\* Number of requests the HTTP layer delivers in one behaviour.
NumRequests == 2

\* Largest days_ahead a request asks for.
MaxDays == 2

Requests == 1..NumRequests

(***************************************************************************)
(* Python values.                                                          *)
(***************************************************************************)
\* Python's None and a present value, as a sequence of zero or one element.
None == <<>>
Some(x) == <<x>>

Abs(x) == IF x < 0 THEN 0 - x ELSE x

SeqMin(s) == CHOOSE m \in {s[i] : i \in DOMAIN s} : \A i \in DOMAIN s : m <= s[i]
SeqMax(s) == CHOOSE m \in {s[i] : i \in DOMAIN s} : \A i \in DOMAIN s : m >= s[i]

\* s[-n:]
LastN(s, n) == IF Len(s) <= n THEN s ELSE SubSeq(s, Len(s) - n + 1, Len(s))
\* s[:n]
FirstN(s, n) == IF Len(s) <= n THEN s ELSE SubSeq(s, 1, n)

IsPrefix(s, t) == Len(s) <= Len(t) /\ SubSeq(t, 1, Len(s)) = s

(***************************************************************************)
(* Request inputs.                                                         *)
(***************************************************************************)
\* Price histories: one short of the window, a constant one of exactly the
\* window length, and a longer one whose minimum lies before the trailing window.
History(kind) ==
    CASE kind = "short" -> [i \in 1..(W - 1) |-> 100]
      [] kind = "flat"  -> [i \in 1..W |-> 100]
      [] kind = "ramp"  -> [i \in 1..(W + 1) |-> IF i = 1 THEN 46 ELSE 50 + 4 * (i % 2)]

Histories == {History(k) : k \in {"short", "flat", "ramp"}}

\* real_values: absent (None), empty, shorter and longer than the horizon,
\* with a zero at the front, further back, or nowhere.
RealValues == {None, Some(<<>>), Some(<<100>>), Some(<<0, 100>>), Some(<<100, 0, 50>>)}

\* The JSON body's "days_ahead" member: absent, null, or an integer.
DaysAbsent == <<"absent">>
DaysNull == <<"null">>
DaysInt(n) == <<"int", n>>

NoBody == [json |-> "none", days_ahead |-> DaysAbsent, prices |-> <<>>, real_values |-> None]

PredictBodies ==
    [json : {"object"}, days_ahead : {DaysInt(n) : n \in 0..MaxDays},
     prices : Histories, real_values : RealValues]

\* Bodies the schema HistoricalData rejects: days_ahead missing or null, or
\* a body that is no JSON object.
MalformedBodies ==
    {[json |-> "object", days_ahead |-> DaysAbsent, prices |-> History("flat"), real_values |-> None],
     [json |-> "object", days_ahead |-> DaysNull, prices |-> History("flat"), real_values |-> None],
     [json |-> "array", days_ahead |-> DaysAbsent, prices |-> <<>>, real_values |-> None]}

HttpRequests ==
    [method : {"POST"}, path : {"/predict"}, body : PredictBodies \cup MalformedBodies]
    \cup [method : {"GET"}, path : {"/predict", "/performance", "/"}, body : {NoBody}]

NoRequest == [method |-> "", path |-> "", body |-> NoBody]

(***************************************************************************)
(* sklearn MinMaxScaler(feature_range=(0, 1)).                             *)
(***************************************************************************)
Unfitted == [fitted |-> FALSE, data_min |-> 0, data_range |-> 0]

\* fit: data_min_ and data_range_ over the whole array.
MinMaxScaler_fit(X) ==
    [fitted |-> TRUE, data_min |-> SeqMin(X), data_range |-> SeqMax(X) - SeqMin(X)]

\* scale_ = 1 / data_range_, with a zero range replaced by 1.
ScaleDivisor(sc) == IF sc.data_range = 0 THEN 1 ELSE sc.data_range

\* transform: X * scale_ + min_, with min_ = -data_min_ * scale_.
MinMaxScaler_transform(sc, X) ==
    [i \in DOMAIN X |-> ((X[i] - sc.data_min) * Unit) \div ScaleDivisor(sc)]

\* inverse_transform: (X - min_) / scale_, in steps of 1/Unit of a price.
MinMaxScaler_inverse_transform(sc, P) ==
    [i \in DOMAIN P |-> P[i] * ScaleDivisor(sc) + sc.data_min * Unit]

(***************************************************************************)
(* The loaded Keras model: a deterministic point prediction from a window. *)
(***************************************************************************)
model_predict(window) == (window[1] + window[Len(window)]) \div 2

RollWindowNoDrop(window, prediction) == Append(window, prediction)

\* np.append(current_sequence[:, 1:, :], [[prediction[0]]], axis=1)
RollWindow(window, prediction) == Append(Tail(window), prediction)

(***************************************************************************)
(* Accuracy: np.mean(1 - abs(real - predicted) / real) * 100.              *)
(* real is in prices, predicted in steps of 1/Unit of a price.  A finite   *)
(* result is the exact fraction num/den; IEEE division by zero gives       *)
(* nan (0/0) or -inf (x/0 inside 1 - ...), and nan wins in the mean.       *)
(***************************************************************************)
RECURSIVE SumTerms(_, _, _)
SumTerms(real, predicted, i) ==
    IF i = 0 THEN <<0, 1>>
    ELSE LET s == SumTerms(real, predicted, i - 1)
             a == real[i] * Unit
             t == a - Abs(a - predicted[i])
         IN  <<s[1] * a + t * s[2], s[2] * a>>

Accuracy(real, predicted) ==
    IF real = <<>> THEN [kind |-> "nan", num |-> 0, den |-> 1]  \* mean of nothing
    ELSE IF \E i \in DOMAIN real : real[i] = 0 /\ predicted[i] = 0
    THEN [kind |-> "nan", num |-> 0, den |-> 1]
    ELSE IF \E i \in DOMAIN real : real[i] = 0
    THEN [kind |-> "-inf", num |-> 0, den |-> 1]
    ELSE LET s == SumTerms(real, predicted, Len(real))
         IN  [kind |-> "finite", num |-> 100 * s[1], den |-> Len(real) * s[2]]

\* Round half to even of n/d, d > 0.
RoundHalfEven(n, d) ==
    LET q == n \div d
        r == n - q * d
    IN  IF 2 * r < d THEN q
        ELSE IF 2 * r > d THEN q + 1
        ELSE IF q % 2 = 0 THEN q ELSE q + 1

\* round(accuracy, 2): hundredths of a percent; nan and inf round to themselves.
Round2(acc) ==
    IF acc.kind = "finite"
    THEN [kind |-> "finite", num |-> RoundHalfEven(100 * acc.num, acc.den), den |-> 100]
    ELSE acc

Finite(acc) == acc.kind = "finite"

(***************************************************************************)
(* State.                                                                  *)
(***************************************************************************)
VARIABLES
    model_loaded,      \* module global `model` is not None
    scaler,            \* module global `scaler`, shared by every request
    performance_data,  \* module global list of PerformanceRecords
    accuracy_data,     \* module global list of AccuracyRecords
    pc,                \* where each request is
    request,           \* the HTTP request
    mw_days_ahead,     \* the middleware's local days_ahead
    scaled_prices,     \* predict_prices locals
    current_sequence,
    future_prices,
    result,            \* what the endpoint hands back to call_next
    response,          \* what the client receives
    windows,           \* history: the windows passed to model.predict, in order
    fit_ctx,           \* history: the scaler parameters this request's fit computed
    inverse_ctx        \* history: the scaler parameters its inverse_transform used

globals == <<model_loaded, scaler, performance_data, accuracy_data>>
locals == <<scaled_prices, current_sequence, future_prices>>
history == <<windows, fit_ctx, inverse_ctx>>
vars == <<globals, pc, request, mw_days_ahead, locals, result, response, history>>

NoResult ==
    [status |-> 0, detail |-> "", future_prices |-> <<>>, accuracy |-> None,
     ref |-> None, ref_len |-> 0]

NoResponse ==
    [status |-> 0, detail |-> "", future_prices |-> <<>>, accuracy |-> None,
     performance |-> None]

\* raise HTTPException(status_code=..., detail=...) and the framework's own errors.
HttpError(status, detail) == [NoResult EXCEPT !.status = status, !.detail = detail]

\* The object a name of a returned value refers to.
Deref(name) == IF name = "performance_data" THEN performance_data ELSE <<>>

\* A lost update: the record lands in the slot a concurrent append filled.
ListAppendLost(list, record) ==
    IF list = <<>> THEN <<record>> ELSE [list EXCEPT ![Len(list)] = record]

\* list.append: one bytecode under the interpreter lock.
ListAppend(list, record) == Append(list, record)

\* The state after import of the module, with the requests of `arriving`
\* still to come.
Start(arriving) ==
    /\ model_loaded \in BOOLEAN
    /\ scaler = Unfitted
    /\ performance_data = <<>>
    /\ accuracy_data = <<>>
    /\ pc = [r \in Requests |-> IF r \in arriving THEN "idle" ELSE "done"]
    /\ request = [r \in Requests |-> NoRequest]
    /\ mw_days_ahead = [r \in Requests |-> None]
    /\ scaled_prices = [r \in Requests |-> <<>>]
    /\ current_sequence = [r \in Requests |-> <<>>]
    /\ future_prices = [r \in Requests |-> <<>>]
    /\ result = [r \in Requests |-> NoResult]
    /\ response = [r \in Requests |-> NoResponse]
    /\ windows = [r \in Requests |-> <<>>]
    /\ fit_ctx = [r \in Requests |-> None]
    /\ inverse_ctx = [r \in Requests |-> None]

Init == Start(Requests)

(***************************************************************************)
(* add_process_time_header, up to and into call_next.                      *)
(***************************************************************************)
\* body.get("days_ahead", 0) on the parsed body; a body that is no object
\* has no .get, the exception is logged and days_ahead stays None.
ExtractDaysAhead(q) ==
    IF q.method = "POST" /\ q.path = "/predict" /\ q.body.json = "object"
    THEN IF q.body.days_ahead = DaysAbsent THEN Some(0)
         ELSE IF q.body.days_ahead = DaysNull THEN None
         ELSE Some(q.body.days_ahead[2])
    ELSE None

\* HistoricalData accepts the body: an object with prices and an integer days_ahead.
SchemaValid(q) == q.body.json = "object" /\ q.body.days_ahead[1] = "int"

\* Routing of call_next: the endpoint to run, or the framework's own response.
Route(q) ==
    IF q.path = "/predict"
    THEN IF q.method # "POST" THEN [to |-> "call_next_return", result |-> HttpError(405, "Method Not Allowed")]
         ELSE IF SchemaValid(q) THEN [to |-> "predict_validate", result |-> NoResult]
         ELSE [to |-> "call_next_return", result |-> HttpError(422, "Unprocessable Entity")]
    ELSE IF q.path = "/performance" THEN [to |-> "get_performance", result |-> NoResult]
    ELSE [to |-> "call_next_return", result |-> [NoResult EXCEPT !.status = 200, !.detail = "root"]]

add_process_time_header_begin(r) ==
    /\ pc[r] = "idle"
    /\ \E q \in HttpRequests :
        /\ request' = [request EXCEPT ![r] = q]
        /\ mw_days_ahead' = [mw_days_ahead EXCEPT ![r] = ExtractDaysAhead(q)]
        /\ pc' = [pc EXCEPT ![r] = Route(q).to]
        /\ result' = [result EXCEPT ![r] = Route(q).result]
    /\ UNCHANGED <<globals, locals, response, history>>

(***************************************************************************)
(* predict_prices.                                                         *)
(***************************************************************************)
ValidationFailureHorizonFirst(data) ==
    IF data.days_ahead[2] < 1 THEN "InvalidHorizon"
    ELSE IF Len(data.prices) < W THEN "InsufficientHistory"
    ELSE IF ~model_loaded THEN "ModelUnavailable"
    ELSE ""

\* The three checks, in the order of the code; "" when all pass.
ValidationFailure(data) ==
    IF Len(data.prices) < W THEN "InsufficientHistory"
    ELSE IF data.days_ahead[2] < 1 THEN "InvalidHorizon"
    ELSE IF ~model_loaded THEN "ModelUnavailable"
    ELSE ""

predict_validate(r) ==
    /\ pc[r] = "predict_validate"
    /\ LET failure == ValidationFailure(request[r].body)
       IN  IF failure # ""
           THEN /\ result' = [result EXCEPT ![r] = HttpError(400, failure)]
                /\ pc' = [pc EXCEPT ![r] = "call_next_return"]
           ELSE /\ pc' = [pc EXCEPT ![r] = "predict_fit"]
                /\ UNCHANGED result
    /\ UNCHANGED <<globals, request, mw_days_ahead, locals, response, history>>

\* scaler.fit_transform is fit followed by transform on the shared scaler:
\* another request's fit can land between the two.
predict_fit(r) ==
    /\ pc[r] = "predict_fit"
    /\ scaler' = MinMaxScaler_fit(request[r].body.prices)
    /\ fit_ctx' = [fit_ctx EXCEPT ![r] = Some(scaler')]
    /\ pc' = [pc EXCEPT ![r] = "predict_transform"]
    /\ UNCHANGED <<model_loaded, performance_data, accuracy_data, request,
                   mw_days_ahead, locals, result, response, windows, inverse_ctx>>

\* The initial window: scaled_prices[-60:].
InputSequence(scaled) == LastN(scaled, W)

predict_transform(r) ==
    /\ pc[r] = "predict_transform"
    /\ LET scaled == MinMaxScaler_transform(scaler, request[r].body.prices)
       IN  /\ scaled_prices' = [scaled_prices EXCEPT ![r] = scaled]
           /\ current_sequence' = [current_sequence EXCEPT ![r] = InputSequence(scaled)]
    /\ future_prices' = [future_prices EXCEPT ![r] = <<>>]
    /\ pc' = [pc EXCEPT ![r] = "predict_loop"]
    /\ UNCHANGED <<globals, request, mw_days_ahead, result, response, history>>

LoopContinuesOffByOne(done, days_ahead) == done <= days_ahead

\* for _ in range(data.days_ahead): the loop goes on while this holds.
LoopContinues(done, days_ahead) == done < days_ahead

\* One iteration of the loop.
predict_step(r) ==
    /\ pc[r] = "predict_loop"
    /\ LoopContinues(Len(future_prices[r]), request[r].body.days_ahead[2])
    /\ LET prediction == model_predict(current_sequence[r])
       IN  /\ windows' = [windows EXCEPT ![r] = Append(@, current_sequence[r])]
           /\ future_prices' = [future_prices EXCEPT ![r] = Append(@, prediction)]
           /\ current_sequence' =
                  [current_sequence EXCEPT ![r] = RollWindow(@, prediction)]
    /\ UNCHANGED <<globals, pc, request, mw_days_ahead, scaled_prices, result,
                   response, fit_ctx, inverse_ctx>>

\* Loop exit and scaler.inverse_transform on the shared scaler.
predict_inverse(r) ==
    /\ pc[r] = "predict_loop"
    /\ ~LoopContinues(Len(future_prices[r]), request[r].body.days_ahead[2])
    /\ future_prices' =
           [future_prices EXCEPT ![r] = MinMaxScaler_inverse_transform(scaler, @)]
    /\ inverse_ctx' = [inverse_ctx EXCEPT ![r] = Some(scaler)]
    /\ pc' = [pc EXCEPT ![r] = "predict_score"]
    /\ UNCHANGED <<globals, request, mw_days_ahead, scaled_prices, current_sequence,
                   result, response, windows, fit_ctx>>

TruthyNotNone(real_values) == real_values # None

\* `if data.real_values:` None and the empty list are both false.
Truthy(real_values) == real_values # None /\ real_values[1] # <<>>

\* The two slices compared: real_values[:len(future)] and future[:len(real)].
ComparedReal(real_values, future) == FirstN(real_values, Len(future))
ComparedPredicted(real, future) == FirstN(future, Len(real))

AccuracyRecord(real, predicted) ==
    [real_values |-> real, predicted_values |-> predicted,
     accuracy |-> Accuracy(real, predicted)]

\* Lines 131-151: scoring, the append to accuracy_data and the return.  An
\* exception of the append (MemoryError) is caught by `except Exception`
\* and re-raised as HTTPException(400).
predict_score(r) ==
    /\ pc[r] = "predict_score"
    /\ LET data == request[r].body
           real == ComparedReal(data.real_values[1], future_prices[r])
           predicted == ComparedPredicted(real, future_prices[r])
           rec == AccuracyRecord(real, predicted)
       IN  IF Truthy(data.real_values)
           THEN \E append_fails \in BOOLEAN :
                  IF append_fails
                  THEN /\ result' = [result EXCEPT ![r] = HttpError(400, "MemoryError")]
                       /\ UNCHANGED accuracy_data
                  ELSE /\ accuracy_data' = ListAppend(accuracy_data, rec)
                       /\ result' = [result EXCEPT ![r] =
                              [NoResult EXCEPT !.status = 200,
                                               !.future_prices = future_prices[r],
                                               !.accuracy = Some(Round2(rec.accuracy))]]
           ELSE /\ result' = [result EXCEPT ![r] =
                       [NoResult EXCEPT !.status = 200,
                                        !.future_prices = future_prices[r]]]
                /\ UNCHANGED accuracy_data
    /\ pc' = [pc EXCEPT ![r] = "call_next_return"]
    /\ UNCHANGED <<model_loaded, scaler, performance_data, request, mw_days_ahead,
                   locals, response, history>>

(***************************************************************************)
(* get_performance_data: returns the list object itself.                   *)
(***************************************************************************)
get_performance_data(r) ==
    /\ pc[r] = "get_performance"
    /\ result' = [result EXCEPT ![r] =
           [NoResult EXCEPT !.status = 200, !.ref = Some("performance_data"),
                            !.ref_len = Len(performance_data)]]
    /\ pc' = [pc EXCEPT ![r] = "call_next_return"]
    /\ UNCHANGED <<globals, request, mw_days_ahead, locals, response, history>>

(***************************************************************************)
(* add_process_time_header, from the return of call_next.                  *)
(***************************************************************************)
\* The framework encodes the returned dict as JSON inside call_next, with
\* allow_nan=False: nan and inf raise ValueError, which leaves call_next as
\* an exception, not as a response.
RenderFails(res) == res.status = 200 /\ res.accuracy # None /\ ~Finite(res.accuracy[1])

\* The encoded response: a returned list is read at encoding time.
Rendered(res) ==
    [status |-> res.status, detail |-> res.detail, future_prices |-> res.future_prices,
     accuracy |-> res.accuracy,
     performance |-> IF res.ref = None THEN None ELSE Some(Deref(res.ref[1]))]

\* `if request.url.path == "/predict" and days_ahead is not None`
RecordsLatency(q, days_ahead) == q.path = "/predict" /\ days_ahead # None

\* process_time is the request's own measurement: the request stands for it.
PerformanceRecord(r) ==
    [path |-> request[r].path, process_time |-> r, days_ahead |-> mw_days_ahead[r][1]]

ServerError(detail) == [NoResponse EXCEPT !.status = 500, !.detail = detail]

add_process_time_header_end(r) ==
    /\ pc[r] = "call_next_return"
    /\ IF RenderFails(result[r])
       THEN /\ response' = [response EXCEPT ![r] = ServerError("ValueError")]
            /\ UNCHANGED performance_data
       ELSE IF RecordsLatency(request[r], mw_days_ahead[r])
       THEN \E append_fails \in BOOLEAN :
              IF append_fails
              THEN /\ response' = [response EXCEPT ![r] = ServerError("MemoryError")]
                   /\ UNCHANGED performance_data
              ELSE /\ performance_data' = ListAppend(performance_data, PerformanceRecord(r))
                   /\ response' = [response EXCEPT ![r] = Rendered(result[r])]
       ELSE /\ response' = [response EXCEPT ![r] = Rendered(result[r])]
            /\ UNCHANGED performance_data
    /\ pc' = [pc EXCEPT ![r] = "done"]
    /\ UNCHANGED <<model_loaded, scaler, accuracy_data, request, mw_days_ahead,
                   locals, result, history>>

Next ==
    \E r \in Requests :
        \/ add_process_time_header_begin(r)
        \/ predict_validate(r)
        \/ predict_fit(r)
        \/ predict_transform(r)
        \/ predict_step(r)
        \/ predict_inverse(r)
        \/ predict_score(r)
        \/ get_performance_data(r)
        \/ add_process_time_header_end(r)

Spec == Init /\ [][Next]_vars

\* The same program with two requests in flight: the HTTP layer delivers
\* the first two requests, any further one never arrives.
InitPair == Start({r \in Requests : r <= 2})

SpecPair == InitPair /\ [][Next]_vars

(***************************************************************************)
(* Properties.                                                             *)
(***************************************************************************)
Body(r) == request[r].body
DaysAhead(r) == Body(r).days_ahead[2]

\* The request reached predict_prices (the schema accepted it).
IsForecast(r) ==
    request[r].method = "POST" /\ request[r].path = "/predict" /\ SchemaValid(request[r])

\* predict_prices has returned its dict.
Returned(r) == IsForecast(r) /\ result[r].status = 200

\* predict_prices has left its prediction loop.
LoopDone(r) == IsForecast(r) /\ inverse_ctx[r] # None

\* C1: once predict_prices has passed its checks and left the loop it has
\* invoked the Predictor exactly days_ahead times and holds exactly
\* days_ahead prices, and a returned future_prices has length days_ahead.
ForecastLengthIsHorizon ==
    \A r \in Requests :
        /\ LoopDone(r) =>
              /\ Len(windows[r]) = DaysAhead(r)
              /\ Len(future_prices[r]) = DaysAhead(r)
        /\ Returned(r) => Len(result[r].future_prices) = DaysAhead(r)
        /\ (IsForecast(r) /\ response[r].status = 200) =>
              Len(response[r].future_prices) = DaysAhead(r)

ForecastLengthWitness ==
    \E r \in Requests :
        /\ IsForecast(r) /\ response[r].status = 200
        /\ DaysAhead(r) = 2
        /\ Len(Body(r).prices) = W + 1
        /\ Len(response[r].future_prices) = 2

PreconditionErrors == {"InsufficientHistory", "InvalidHorizon", "ModelUnavailable"}

\* C2: the checks run in the order history, horizon, model, only the first
\* failure is reported, and a request that failed a check has fit nothing,
\* built no window and invoked no Predictor.
ValidationOrder ==
    \A r \in Requests :
        (IsForecast(r) /\ pc[r] \notin {"idle", "predict_validate"}) =>
            LET short == Len(Body(r).prices) < W
                badHorizon == DaysAhead(r) < 1
            IN  /\ short => result[r] = HttpError(400, "InsufficientHistory")
                /\ (~short /\ badHorizon) => result[r] = HttpError(400, "InvalidHorizon")
                /\ (~short /\ ~badHorizon /\ ~model_loaded) =>
                       result[r] = HttpError(400, "ModelUnavailable")
                /\ result[r].detail = "ModelUnavailable" => (~short /\ ~badHorizon)
                /\ (~short /\ ~badHorizon /\ model_loaded) =>
                       result[r].detail \notin PreconditionErrors
                /\ result[r].detail \in PreconditionErrors =>
                       /\ fit_ctx[r] = None
                       /\ inverse_ctx[r] = None
                       /\ scaled_prices[r] = <<>>
                       /\ current_sequence[r] = <<>>
                       /\ windows[r] = <<>>

ValidationOrderWitness ==
    \E r \in Requests :
        /\ pc[r] = "done" /\ IsForecast(r)
        /\ Len(Body(r).prices) < W /\ DaysAhead(r) < 1 /\ ~model_loaded
        /\ result[r].detail = "InsufficientHistory"

\* The forecast of a request that runs alone: the loop from its own window,
\* de-normalized under the fit of its own history.
RECURSIVE LoopAlone(_, _)
LoopAlone(window, n) ==
    IF n = 0 THEN <<>>
    ELSE <<model_predict(window)>> \o LoopAlone(RollWindow(window, model_predict(window)), n - 1)

ForecastAlone(prices, days_ahead) ==
    LET ctx == MinMaxScaler_fit(prices)
    IN  MinMaxScaler_inverse_transform(
            ctx, LoopAlone(InputSequence(MinMaxScaler_transform(ctx, prices)), days_ahead))

\* C3: the scaling context a request de-normalizes with is the one fit on
\* its own history, and its result is the one it produces when run alone.
OwnScalingContext ==
    \A r \in Requests :
        /\ LoopDone(r) => inverse_ctx[r] = Some(MinMaxScaler_fit(Body(r).prices))
        /\ Returned(r) =>
              result[r].future_prices = ForecastAlone(Body(r).prices, DaysAhead(r))

\* C4: the first window is the trailing W values of the normalized history,
\* every later one is the previous one without its oldest element and with
\* the previous prediction at the end, and every window has length W.
WindowSlides ==
    \A r \in Requests :
        /\ \A k \in DOMAIN windows[r] :
              /\ Len(windows[r][k]) = W
              /\ k = 1 => windows[r][k] = SubSeq(scaled_prices[r],
                                                 Len(scaled_prices[r]) - W + 1,
                                                 Len(scaled_prices[r]))
              /\ k > 1 =>
                    /\ SubSeq(windows[r][k], 1, W - 1) = SubSeq(windows[r][k - 1], 2, W)
                    /\ windows[r][k][W] = model_predict(windows[r][k - 1])
        /\ pc[r] = "predict_loop" => Len(current_sequence[r]) = W

WindowSlidesWitness ==
    \E r \in Requests :
        /\ Len(windows[r]) = 2
        /\ Len(Body(r).prices) = W + 1
        /\ windows[r][1] # windows[r][2]

\* The ground truth the scorer compares has a zero in it.
ZeroCompared(r) ==
    /\ Body(r).real_values # None
    /\ \E i \in 1..DaysAhead(r) :
          i <= Len(Body(r).real_values[1]) /\ Body(r).real_values[1][i] = 0

\* C5: scoring against a zero ground-truth value fails with
\* DegenerateGroundTruth (unless the request already failed for lack of
\* memory), and accuracy_data never holds a non-finite accuracy.
ZeroGroundTruthRejected ==
    /\ \A r \in Requests :
          (IsForecast(r) /\ pc[r] \in {"call_next_return", "done"}
              /\ inverse_ctx[r] # None /\ ZeroCompared(r)
              /\ result[r].detail # "MemoryError") =>
                 result[r] = HttpError(400, "DegenerateGroundTruth")
    /\ \A i \in DOMAIN accuracy_data : Finite(accuracy_data[i].accuracy)

\* C6: what get_performance_data returned holds the records of the time of
\* the return, whatever is appended afterwards.
SnapshotIsCopy ==
    \A r \in Requests :
        result[r].ref # None => Len(Deref(result[r].ref[1])) = result[r].ref_len

\* An append of this request's telemetry failed.
AppendFailed(r) == result[r].detail = "MemoryError" \/ response[r].detail = "MemoryError"

\* C7: a request whose forecast was computed and whose telemetry append
\* failed is still answered with the forecast.
TelemetryFailureNonFatal ==
    \A r \in Requests :
        (pc[r] = "done" /\ LoopDone(r) /\ AppendFailed(r)) =>
            /\ response[r].status = 200
            /\ response[r].future_prices = future_prices[r]

\* The requests whose append to each log was executed.
PerfWriters ==
    {r \in Requests : pc[r] = "done" /\ RecordsLatency(request[r], mw_days_ahead[r])
                        /\ response[r].status # 500}
AccWriters == {r \in Requests : Returned(r) /\ result[r].accuracy # None}

\* C8: the logs start empty, hold one record per executed append, and every
\* step leaves the old log as a prefix of the new one.
LogsHoldEveryAppend ==
    /\ Len(performance_data) = Cardinality(PerfWriters)
    /\ \A r \in PerfWriters :
          Cardinality({i \in DOMAIN performance_data :
                          performance_data[i].process_time = r}) = 1
    /\ Len(accuracy_data) = Cardinality(AccWriters)

LogsAppendOnly ==
    []LogsHoldEveryAppend
    /\ [][/\ IsPrefix(performance_data, performance_data')
          /\ IsPrefix(accuracy_data, accuracy_data')]_vars

LogsAppendOnlyWitness ==
    /\ Len(performance_data) = 2
    /\ Len(accuracy_data) = 2
    /\ \A r \in Requests : pc[r] = "done"

\* The request carries at least one ground-truth value.
HasGroundTruth(r) == Body(r).real_values # None /\ Len(Body(r).real_values[1]) > 0

\* min(days_ahead, len(real_values))
ComparedLength(r) ==
    IF DaysAhead(r) <= Len(Body(r).real_values[1])
    THEN DaysAhead(r) ELSE Len(Body(r).real_values[1])

\* The step in which predict_prices returns its dict for request r.
Returns(r) == IsForecast(r) /\ result[r].status = 0 /\ result'[r].status = 200

\* C9: a returned forecast has an accuracy exactly when real_values is
\* non-empty; without ground truth the return leaves accuracy_data alone,
\* with it the return appends one record of the leading
\* min(days_ahead, len(real_values)) values of each side.
AccuracyIffGroundTruth ==
    /\ [](\A r \in Requests :
             Returned(r) => (result[r].accuracy # None <=> HasGroundTruth(r)))
    /\ [][\A r \in Requests :
             Returns(r) =>
                IF HasGroundTruth(r)
                THEN /\ Len(accuracy_data') = Len(accuracy_data) + 1
                     /\ SubSeq(accuracy_data', 1, Len(accuracy_data)) = accuracy_data
                     /\ LET rec == accuracy_data'[Len(accuracy_data')]
                            n == ComparedLength(r)
                        IN  /\ Len(rec.real_values) = n
                            /\ Len(rec.predicted_values) = n
                            /\ rec.real_values = SubSeq(Body(r).real_values[1], 1, n)
                            /\ rec.predicted_values =
                                   SubSeq(result'[r].future_prices, 1, n)
                ELSE accuracy_data' = accuracy_data]_vars

AccuracyIffGroundTruthWitness ==
    \E r \in Requests :
        /\ Returned(r) /\ result[r].accuracy # None
        /\ DaysAhead(r) = 2 /\ Len(Body(r).real_values[1]) = 1
        /\ \E i \in DOMAIN accuracy_data :
              /\ accuracy_data[i].real_values = Body(r).real_values[1]
              /\ accuracy_data[i].predicted_values = SubSeq(result[r].future_prices, 1, 1)

\* The PerformanceRecords of request r.
RecordsOf(r) == {i \in DOMAIN performance_data : performance_data[i].process_time = r}

\* C10: a completed POST /predict with a JSON object body has exactly one
\* PerformanceRecord, with path /predict and its days_ahead (0 when absent),
\* whether the forecast succeeded or not; a failed forecast leaves no
\* AccuracyRecord; any other request has no PerformanceRecord.  Requests
\* whose append itself ran out of memory are left aside.
LatencyRecordedOnce ==
    /\ \A r \in Requests :
          (pc[r] = "done" /\ ~AppendFailed(r)) =>
             IF request[r].method = "POST" /\ request[r].path = "/predict"
                /\ Body(r).json = "object"
             THEN /\ Cardinality(RecordsOf(r)) = 1
                  /\ \A i \in RecordsOf(r) :
                        /\ performance_data[i].path = "/predict"
                        /\ performance_data[i].days_ahead =
                               IF Body(r).days_ahead[1] = "int" THEN DaysAhead(r) ELSE 0
             ELSE RecordsOf(r) = {}
    /\ (\A r \in Requests : pc[r] = "done" /\ response[r].status # 200
                                /\ ~AppendFailed(r)) =>
          accuracy_data = <<>>

====
